---- MODULE Spec2Model ----
(***************************************************************************)
(* Model of backend/websocket_manager.py (PriceWebSocketManager) together  *)
(* with the per-connection handler websocket_prices of backend/server.py.  *)
(*                                                                         *)
(* asyncio runs one task at a time and switches tasks only at an await     *)
(* that really suspends.  Every action below therefore runs one task from  *)
(* the suspension point it is waiting at to the next suspension point.     *)
(***************************************************************************)
EXTENDS Integers, Sequences, FiniteSets, TLC

(* ------------------------------ bounds -------------------------------- *)
\* The model is explored under profiles of bounds (lim): "fanout" has
\* several downstream connections and ticks within one feed cycle, "session"
\* has one downstream connection, subscription requests and a reconnect,
\* without ticks, "replies" has one connection that subscribes once while
\* ticks arrive within one feed cycle, "decode" has one connection and one cycle, with the rarer events: frames
\* the decoder drops (drops), records without a last price (partial, per
\* frame), cancelled handler tasks (cancels), HTTP price reads (reads);
\* "prices" has the feed alone,
\* over two cycles, reading frames whose prices vary (priced); "status" has
\* several downstream connections over two cycles and no ticks.
FanoutConns == 2
FanoutTicks == 2
FanoutCycles == 1
FanoutRequests == 0
SessionConns == 1
SessionTicks == 0
SessionCycles == 2
SessionRequests == 2
SessionDrops == 0
SessionPartial == 0
SessionCancels == 0
SessionPriced == 0
SessionReads == 0
FanoutDrops == 0
FanoutPartial == 0
FanoutCancels == 0
FanoutPriced == 0
FanoutReads == 0
DecodeConns == 1
DecodeTicks == 1
DecodeCycles == 1
DecodeRequests == 0
DecodeDrops == 1
DecodePartial == 1
DecodeCancels == 1
DecodePriced == 0
DecodeReads == 1
PricesConns == 0
PricesTicks == 3
PricesCycles == 2
PricesRequests == 0
PricesDrops == 0
PricesPartial == 0
PricesCancels == 0
PricesPriced == 1
PricesReads == 0
StatusConns == 2
StatusTicks == 0
StatusCycles == 2
StatusRequests == 0
StatusDrops == 0
StatusPartial == 0
StatusCancels == 0
StatusPriced == 0
StatusReads == 0
NumKeys == 2
\* one connection that subscribes once while two ticks arrive
RepliesConns == 1
RepliesTicks == 2
RepliesCycles == 1
RepliesRequests == 1
RepliesDrops == 0
RepliesPartial == 0
RepliesCancels == 0
RepliesPriced == 0
RepliesReads == 0
MaxKeysPerCall == 2
\* the place_trade requests of one user that may be under way together, the
\* quantities they ask for and the cached price they trade at
MaxTrades == 3
TradeQuantities == {3000, 4000}
TradePrice == 100
MaxRecs == 2

Profiles ==
  {[conns |-> FanoutConns, ticks |-> FanoutTicks, cycles |-> FanoutCycles,
    requests |-> FanoutRequests, drops |-> FanoutDrops, partial |-> FanoutPartial,
    cancels |-> FanoutCancels, priced |-> FanoutPriced,
    reads |-> FanoutReads],
   [conns |-> SessionConns, ticks |-> SessionTicks, cycles |-> SessionCycles,
    requests |-> SessionRequests, drops |-> SessionDrops, partial |-> SessionPartial,
    cancels |-> SessionCancels, priced |-> SessionPriced,
    reads |-> SessionReads],
   [conns |-> DecodeConns, ticks |-> DecodeTicks, cycles |-> DecodeCycles,
    requests |-> DecodeRequests, drops |-> DecodeDrops, partial |-> DecodePartial,
    cancels |-> DecodeCancels, priced |-> DecodePriced,
    reads |-> DecodeReads],
   [conns |-> PricesConns, ticks |-> PricesTicks, cycles |-> PricesCycles,
    requests |-> PricesRequests, drops |-> PricesDrops, partial |-> PricesPartial,
    cancels |-> PricesCancels, priced |-> PricesPriced,
    reads |-> PricesReads],
   [conns |-> StatusConns, ticks |-> StatusTicks, cycles |-> StatusCycles,
    requests |-> StatusRequests, drops |-> StatusDrops, partial |-> StatusPartial,
    cancels |-> StatusCancels, priced |-> StatusPriced,
    reads |-> StatusReads],
   [conns |-> RepliesConns, ticks |-> RepliesTicks, cycles |-> RepliesCycles,
    requests |-> RepliesRequests, drops |-> RepliesDrops, partial |-> RepliesPartial,
    cancels |-> RepliesCancels, priced |-> RepliesPriced,
    reads |-> RepliesReads]}

Conns == 1..(IF FanoutConns > SessionConns THEN FanoutConns ELSE SessionConns)
Keys == 1..NumKeys
LastPrices == {100}
ClosePrices == {0}
\* the prices of the frames of the "prices" profile; a close price of 0 is
\* a record without one
TickPrices == {98, 100, 105}
ReferencePrices == {0, 102}

(* ------------------------------ values -------------------------------- *)
None == 0
NoTick == [last_price |-> 0, close_price |-> 0, open_price |-> 0, timestamp |-> 0,
           change_percent |-> 0]
NoMsg == [type |-> "none"]
NoBc == [msg |-> NoMsg, idx |-> 0, cur |-> 0, disconnected |-> <<>>, after |-> "none"]
NoPub == [msg |-> NoMsg, stayed |-> {}, failed |-> {}, raced |-> FALSE, done |-> TRUE]

Range(s) == {s[i] : i \in 1..Len(s)}

SeqsUpTo(S, n) == UNION {[1..k -> S] : k \in 0..n}

RECURSIVE Count(_, _)
Count(s, x) == IF s = <<>> THEN 0 ELSE (IF Head(s) = x THEN 1 ELSE 0) + Count(Tail(s), x)

VARIABLES
  active_connections,      \* list of registered downstream connections
  subscribed_instruments,  \* set of instrument keys
  price_cache,             \* instrument key -> tick (NoTick: key absent)
  upstox_connected,        \* bool
  ws,                      \* session handle: None or the id of the connection
  pc,                      \* suspension point of the feed task
  bc,                      \* the broadcast loop the feed task is inside
  frame,                   \* records of the frame being decoded, not yet handled
  hpc,                     \* suspension point of each connection handler task
  link,                    \* state of the upstream socket: "none", "up", "down"
  cycles,                  \* number of feed cycles started
  clock,                   \* number of ticks decoded (datetime.now of a tick)
  received,                \* per connection: messages delivered to it
  pushLog,                 \* the current upstream socket: the subscription set and the
                           \* number of ticks decoded when it was opened ("open"),
                           \* then the pushes written to it
  lastStatus,              \* the status last passed to broadcast_status
  requests,                \* number of subscribe / unsubscribe requests handled
  decoded,                 \* the price updates the decoder built, in order
  regAt,                   \* per connection: ticks decoded before it registered
  netSubs,                 \* keys subscribed and not unsubscribed since, by request
  pub,                     \* bookkeeping of the current / last broadcast
  pruned,                  \* connections removed by a publish after a failed send
  broken,                  \* connections a send has failed on: closed for sending
  dropped,                 \* frames read and dropped: kind, and ticks decoded before
  responses,               \* what the HTTP price reads returned, in order
  reply,                   \* per connection: the keys of its subscribe request in progress
  db,                      \* the database: the user's document, portfolio, orders, config
  tasks,                   \* per place_trade request: its suspension point and locals
  lim,                     \* the bounds of this exploration (never changes)
  note                     \* what the last feed step did (failure kind of the cycle)

vars == <<active_connections, subscribed_instruments, price_cache, upstox_connected, ws,
          pc, bc, frame, hpc, link, cycles, clock, received, pushLog, lastStatus,
          requests, decoded, regAt, netSubs, pub, pruned, broken, dropped, responses, reply,
                 db, tasks, lim, note>>

(* --------------------------- wire messages ---------------------------- *)
PriceMsg(instrument_key, price_data) ==
  [type |-> "price_update", instrument_key |-> instrument_key, data |-> price_data]

StatusMsg(status) == [type |-> "status", status |-> status]

(* ------------------------ connection registry ------------------------- *)
RECURSIVE RemoveFirst(_, _)
RemoveFirst(s, x) ==
  IF s = <<>> THEN <<>>
  ELSE IF Head(s) = x THEN Tail(s) ELSE <<Head(s)>> \o RemoveFirst(Tail(s), x)

\* what a call leaves in place of the list when list.remove raises ValueError
ValueError == <<-1>>

\* list.remove(x): removes the first occurrence, raises ValueError when absent
ListRemove(s, x) == IF x \in Range(s) THEN RemoveFirst(s, x) ELSE ValueError

\* a disconnect without the membership test
disconnectUnguarded(conns, websocket) == ListRemove(conns, websocket)

\* disconnect(websocket): list.remove of the first occurrence, when present
disconnect(conns, websocket) ==
  IF websocket \in Range(conns) THEN ListRemove(conns, websocket) ELSE conns

\* connect(websocket): append after accept
connect(conns, websocket) == Append(conns, websocket)

RECURSIVE DisconnectAll(_, _)
DisconnectAll(conns, gone) ==
  IF gone = <<>> THEN conns ELSE DisconnectAll(disconnect(conns, Head(gone)), Tail(gone))

(* ------------------------ subscription registry ----------------------- *)
\* a subscribe that reports every requested key as new
SubscribeLoopAllNew(subs, instrument_keys, new_keys) ==
  <<subs \cup Range(instrument_keys), instrument_keys>>

\* a subscribe that replaces the set by the requested keys
SubscribeLoopReplaces(subs, instrument_keys, new_keys) ==
  <<Range(instrument_keys), SelectSeq(instrument_keys, LAMBDA k : k \notin subs)>>

\* the for loop of subscribe: <<set after the loop, new_keys>>
RECURSIVE SubscribeLoop(_, _, _)
SubscribeLoop(subs, instrument_keys, new_keys) ==
  IF instrument_keys = <<>> THEN <<subs, new_keys>>
  ELSE LET key == Head(instrument_keys) IN
       IF key \notin subs
       THEN SubscribeLoop(subs \cup {key}, Tail(instrument_keys), Append(new_keys, key))
       ELSE SubscribeLoop(subs, Tail(instrument_keys), new_keys)

\* an unsubscribe that discards the first key only
UnsubscribeLoopFirstOnly(subs, instrument_keys) ==
  IF instrument_keys = <<>> THEN subs ELSE subs \ {Head(instrument_keys)}

\* the for loop of unsubscribe: set.discard of every key
RECURSIVE UnsubscribeLoop(_, _)
UnsubscribeLoop(subs, instrument_keys) ==
  IF instrument_keys = <<>> THEN subs
  ELSE UnsubscribeLoop(subs \ {Head(instrument_keys)}, Tail(instrument_keys))

(* ------------------------------ decoder ------------------------------- *)
\* round(x, 2) of n/d percent, kept in hundredths of a percent (d > 0)
RoundDiv(n, d) ==
  LET q == (2 * n + d) \div (2 * d)
      tie == ((2 * n + d) % (2 * d)) = 0
  IN IF tie /\ q % 2 # 0 THEN q - 1 ELSE q

\* a record of feed_response.feeds yields a tick when it has ltpc, or a
\* fullFeed whose marketFF has ltpc; every other record is skipped
HasTick(rec) == rec.kind \in {"ltpc", "fullFeed"}

\* a change measured against the last price cached before
ChangePercentVsLast(cache, rec) ==
  IF cache[rec.key] # NoTick /\ cache[rec.key].last_price # 0
  THEN ((rec.ltp - cache[rec.key].last_price) * 10000) \div cache[rec.key].last_price
  ELSE 0

ChangePercent(cache, rec) ==
  IF rec.cp # 0
  THEN RoundDiv((rec.ltp - rec.cp) * 10000, rec.cp)
  ELSE LET open_price_ref == cache[rec.key].open_price IN
       IF cache[rec.key] # NoTick /\ open_price_ref # 0
       THEN RoundDiv((rec.ltp - open_price_ref) * 10000, open_price_ref)
       ELSE 0

\* an open price that follows the last price
OpenPriceLatest(cache, rec) == rec.ltp

OpenPrice(cache, rec) ==
  IF cache[rec.key] = NoTick THEN rec.ltp ELSE cache[rec.key].open_price

PriceUpdate(cache, rec, now) ==
  [last_price |-> rec.ltp, close_price |-> rec.cp, open_price |-> OpenPrice(cache, rec),
   timestamp |-> now, change_percent |-> ChangePercent(cache, rec)]

(* ----------------------------- broadcaster ---------------------------- *)
\* a cache that keeps the first tick of a key
CacheWriteIfAbsent(cache, instrument_key, price_data) ==
  IF cache[instrument_key] = NoTick THEN [cache EXCEPT ![instrument_key] = price_data]
  ELSE cache

\* first statement of broadcast_price_update
CacheWrite(cache, instrument_key, price_data) ==
  [cache EXCEPT ![instrument_key] = price_data]

\* the list iterator of "for connection in self.active_connections": the
\* loop goes on while its index is inside the list as it is now
LoopHasNext(conns, idx) == idx < Len(conns)

LoopItem(conns, idx) == conns[idx + 1]

\* a publish that forgets the connections whose send raised
PruneNothing(conns, failed_list) == conns

\* what broadcast_price_update does with the connections whose send raised
PruneFailed(conns, failed_list) == DisconnectAll(conns, failed_list)

\* the status the feed loop broadcasts at each of its three call sites
StatusOn401 == "error"
StatusOnConnect == "connected"
StatusOnCleanup == "disconnected"

StartBroadcast(m, msg, after) ==
  [m EXCEPT !.pc = "loop",
            !.bc = [msg |-> msg, idx |-> 0, cur |-> 0, disconnected |-> <<>>, after |-> after],
            !.pub = [msg |-> msg, stayed |-> Range(m.ac), failed |-> {}, raced |-> FALSE,
                     done |-> FALSE]]

broadcast_status(m, status, after) ==
  StartBroadcast([m EXCEPT !.lastStatus = status], StatusMsg(status), after)

broadcast_price_update(m, instrument_key, price_data) ==
  StartBroadcast([m EXCEPT !.cache = CacheWrite(m.cache, instrument_key, price_data)],
                 PriceMsg(instrument_key, price_data), "price")

\* _send_subscription as far as its await: the push is written to the socket
\* when it is open, and the call raises ConnectionClosed when it is not
SendSubscriptionGuard(handle, connected) == handle # None /\ connected

(* ----------------- the feed task, run to its next await ---------------- *)
\* points inside the synchronous code; every other value of pc is an await
Internal == {"loop", "on_connect", "next_rec"}

\* the synchronous code from the point m.pc to the next point or await
Advance(m) ==
  CASE m.pc = "loop" ->
         IF LoopHasNext(m.ac, m.bc.idx)
         THEN [m EXCEPT !.pc = "send", !.bc.cur = LoopItem(m.ac, m.bc.idx),
                        !.bc.idx = m.bc.idx + 1]
         ELSE IF m.bc.after = "price"
         THEN [m EXCEPT !.pc = "next_rec", !.bc = NoBc,
                        !.ac = PruneFailed(m.ac, m.bc.disconnected),
                        !.pruned = m.pruned \cup Range(m.bc.disconnected),
                        !.pub.done = TRUE]
         ELSE [m EXCEPT !.pc = m.bc.after, !.bc = NoBc, !.pub.done = TRUE]
    [] m.pc = "on_connect" ->
         \* if self.subscribed_instruments: await self._send_subscription(list(...))
         IF m.subs # {} /\ SendSubscriptionGuard(m.ws, m.up)
         THEN IF m.link = "up"
              THEN [m EXCEPT !.pc = "ws_send",
                             !.pushLog = Append(m.pushLog, [kind |-> "connect",
                                                            keys |-> m.subs])]
              ELSE [m EXCEPT !.pc = "ws_exit", !.note = "failed"]
         ELSE [m EXCEPT !.pc = "recv"]
    [] m.pc = "next_rec" ->
         IF m.frame = <<>> THEN [m EXCEPT !.pc = "recv"]
         ELSE LET rec == Head(m.frame) IN
              IF ~HasTick(rec)
              THEN [m EXCEPT !.frame = Tail(m.frame)]
              ELSE LET price_update == PriceUpdate(m.cache, rec, m.clock + 1) IN
                   broadcast_price_update(
                     [m EXCEPT !.frame = Tail(m.frame), !.clock = m.clock + 1,
                               !.decoded = Append(m.decoded, PriceMsg(rec.key, price_update))],
                     rec.key, price_update)
    [] OTHER -> m

\* the task runs until it suspends
RECURSIVE Settle(_)
Settle(m0) ==
  CHOOSE r \in {IF m.pc \in Internal THEN Settle(Advance(m)) ELSE m : m \in {m0}} : TRUE

\* the feed task's view of the state, and the state it leaves behind
Now ==
  [pc |-> pc, bc |-> bc, frame |-> frame, ac |-> active_connections, cache |-> price_cache,
   subs |-> subscribed_instruments,
   up |-> upstox_connected, ws |-> ws, clock |-> clock, pushLog |-> pushLog,
   lastStatus |-> lastStatus, decoded |-> decoded, pub |-> pub, pruned |-> pruned,
   note |-> note, link |-> link, broken |-> broken]

Becomes(m0) ==
  \E m \in {m0} :
  /\ pc' = m.pc
  /\ bc' = m.bc
  /\ frame' = m.frame
  /\ active_connections' = m.ac
  /\ subscribed_instruments' = m.subs
  /\ price_cache' = m.cache
  /\ upstox_connected' = m.up
  /\ ws' = m.ws
  /\ clock' = m.clock
  /\ pushLog' = m.pushLog
  /\ lastStatus' = m.lastStatus
  /\ decoded' = m.decoded
  /\ pub' = m.pub
  /\ pruned' = m.pruned
  /\ note' = m.note
  /\ link' = m.link
  /\ broken' = m.broken
  /\ lim' = lim

\* a cleanup that also resets the subscription set
CleanupClearsSubs(m) ==
  Settle(broadcast_status([m EXCEPT !.up = FALSE, !.ws = None, !.note = "failed", !.subs = {}],
                          StatusOnCleanup, "sleep5"))

\* a cleanup that keeps the session handle
CleanupKeepsHandle(m) ==
  Settle(broadcast_status([m EXCEPT !.up = FALSE, !.note = "failed"],
                          StatusOnCleanup, "sleep5"))

\* a cleanup after which the loop ends instead of sleeping and retrying
CleanupThenStop(m) ==
  [Settle(broadcast_status([m EXCEPT !.up = FALSE, !.ws = None, !.note = "failed"],
                           StatusOnCleanup, "stopped")) EXCEPT !.note = "failed"]

\* a cleanup that empties the price cache
CleanupEvictsCache(m) ==
  Settle(broadcast_status([m EXCEPT !.up = FALSE, !.ws = None, !.note = "failed",
                                    !.cache = [k \in Keys |-> NoTick]],
                          StatusOnCleanup, "sleep5"))

\* lines 161-165: the code after the try statement
Cleanup(m) ==
  Settle(broadcast_status([m EXCEPT !.up = FALSE, !.ws = None, !.note = "failed"],
                          StatusOnCleanup, "sleep5"))

\* a connect step that sets the handle and leaves the flag for later
OnConnectHandleOnly(m, handle) ==
  Settle(broadcast_status([m EXCEPT !.ws = handle, !.link = "up",
                                    !.pushLog = <<[kind |-> "open", keys |-> m.subs,
                                                   at |-> m.clock]>>],
                          StatusOnConnect, "on_connect"))

\* a connect step that goes to the read loop without the push of the set
OnConnectSkipsPush(m, handle) ==
  Settle(broadcast_status([m EXCEPT !.ws = handle, !.up = TRUE, !.link = "up",
                                    !.pushLog = <<[kind |-> "open", keys |-> m.subs,
                                                   at |-> m.clock]>>],
                          StatusOnConnect, "recv"))

\* lines 139-147: the body of "async with websockets.connect(...)" up to the read loop
OnConnect(m, handle) ==
  Settle(broadcast_status([m EXCEPT !.ws = handle, !.up = TRUE, !.link = "up",
                                    !.pushLog = <<[kind |-> "open", keys |-> m.subs,
                                                   at |-> m.clock]>>],
                          StatusOnConnect, "on_connect"))

\* an absent credential handled like a failed cycle's cleanup
OnAbsentBroadcasts(m) ==
  Settle(broadcast_status([m EXCEPT !.note = "no_token"], StatusOnCleanup, "sleep30"))

\* lines 101-104: the credential is absent; sleep 30 s and start over
OnAbsent(m) == [m EXCEPT !.pc = "sleep30", !.note = "no_token"]

\* lines 118-122: the 401 branch
On401(m) == Settle(broadcast_status([m EXCEPT !.note = "auth_401"], StatusOn401, "sleep60"))

(* ------------------------------ frames -------------------------------- *)
\* a record of feed_response.feeds as the decoder reads it: which member of
\* the Feed message is set, and the ltp and cp of its ltpc.  A protobuf
\* scalar that is not set on the wire reads as 0, never as None.
Records ==
  [key : Keys, kind : {"ltpc", "fullFeed"}, ltp : LastPrices, cp : ClosePrices]
  \cup [key : Keys, kind : {"ltpc"}, ltp : {0}, cp : ClosePrices]
  \cup [key : Keys, kind : {"indexFF", "empty"}, ltp : {0}, cp : {0}]

\* feed_response.feeds is a map: the records of one frame have distinct keys
Frames ==
  {f \in SeqsUpTo(Records, MaxRecs) :
     f # <<>> /\ \A i, j \in 1..Len(f) : i # j => f[i].key # f[j].key}

\* the frames of the "prices" profile: one ltpc record each
PricedFrames ==
  {<<r>> : r \in [key : Keys, kind : {"ltpc"}, ltp : TickPrices, cp : ReferencePrices]}

FramesOf(l) == IF l.priced > 0 THEN PricedFrames ELSE Frames

NumTicks(f) == Cardinality({i \in 1..Len(f) : HasTick(f[i])})

\* records of f that have an ltpc without a last price
NumPartial(f) == Cardinality({i \in 1..Len(f) : HasTick(f[i]) /\ f[i].ltp = 0})

(* --------------------------- feed task steps -------------------------- *)
\* line 99: the credential is read; absent, present, or the read raises
FindOne ==
  /\ pc = "find_one"
  /\ cycles < lim.cycles
  /\ cycles' = cycles + 1
  /\ \E outcome \in {"absent", "present", "raise"} :
       CASE outcome = "absent" -> Becomes(OnAbsent(Now))
         [] outcome = "present" -> Becomes([Now EXCEPT !.pc = "authorize", !.note = "running"])
         [] OTHER -> Becomes(Cleanup(Now))
  /\ UNCHANGED <<hpc, received, requests, regAt, netSubs, dropped, responses, reply, db, tasks>>

\* lines 103, 121, 165: a sleep ends and the loop starts over
SleepDone ==
  /\ pc \in {"sleep30", "sleep60", "sleep5"}
  /\ Becomes([Now EXCEPT !.pc = "find_one"])
  /\ UNCHANGED <<hpc, received, cycles, requests, regAt, netSubs, dropped, responses, reply, db, tasks>>

\* lines 110-128: the authorize request answers 200, 401, or anything else
Authorize ==
  /\ pc = "authorize"
  /\ \E outcome \in {"200", "401", "other"} :
       CASE outcome = "200" -> Becomes([Now EXCEPT !.pc = "ws_connect"])
         [] outcome = "401" -> Becomes(On401(Now))
         [] OTHER -> Becomes(Cleanup(Now))
  /\ UNCHANGED <<hpc, received, cycles, requests, regAt, netSubs, dropped, responses, reply, db, tasks>>

\* line 133: websockets.connect succeeds
WsConnectOk ==
  /\ pc = "ws_connect"
  /\ Becomes(OnConnect(Now, cycles))
  /\ UNCHANGED <<hpc, received, cycles, requests, regAt, netSubs, dropped, responses, reply, db, tasks>>

\* line 133: websockets.connect raises
WsConnectFail ==
  /\ pc = "ws_connect"
  /\ Becomes(Cleanup(Now))
  /\ UNCHANGED <<hpc, received, cycles, requests, regAt, netSubs, dropped, responses, reply, db, tasks>>

\* lines 72-76 and 87-91: the send the broadcast loop awaits returns or
\* raises; once a send on a connection has raised the connection is closed
\* for sending and every later send on it raises
SendDone ==
  /\ pc = "send"
  /\ \E ok \in IF bc.cur \in broken THEN {FALSE} ELSE BOOLEAN :
       LET c == bc.cur
           failed == IF bc.after = "price" THEN Append(bc.disconnected, c) ELSE bc.disconnected
       IN IF ok
          THEN /\ received' = [received EXCEPT ![c] = Append(@, bc.msg)]
               /\ Becomes(Settle([Now EXCEPT !.pc = "loop"]))
          ELSE /\ received' = received
               /\ Becomes(Settle([Now EXCEPT !.pc = "loop", !.bc.disconnected = failed,
                                             !.pub.failed = pub.failed \cup {c},
                                             !.broken = broken \cup {c}]))
  /\ UNCHANGED <<hpc, cycles, requests, regAt, netSubs, dropped, responses, reply, db, tasks>>

\* line 147: the on-connect push returns, or raises when the socket has closed
WsSendDone ==
  /\ pc = "ws_send"
  /\ \/ Becomes([Now EXCEPT !.pc = "recv"])
     \/ link = "down" /\ Becomes([Now EXCEPT !.pc = "ws_exit", !.note = "failed"])
  /\ UNCHANGED <<hpc, received, cycles, requests, regAt, netSubs, dropped, responses, reply, db, tasks>>

\* lines 150-152: a binary frame arrives and is decoded
RecvBinary ==
  /\ pc = "recv"
  /\ link = "up"
  /\ \E f \in FramesOf(lim) :
       /\ clock + NumTicks(f) <= lim.ticks
       /\ NumPartial(f) <= lim.partial
       /\ Becomes(Settle([Now EXCEPT !.pc = "next_rec", !.frame = f]))
  /\ UNCHANGED <<hpc, received, cycles, requests, regAt, netSubs, dropped, responses, reply, db, tasks>>

\* a parse failure that is raised to the read loop and ends the session
RecvMalformedRaises ==
  /\ pc = "recv"
  /\ link = "up"
  /\ Len(dropped) < lim.drops
  /\ dropped' = Append(dropped, [kind |-> "malformed", at |-> clock])
  /\ Becomes([Now EXCEPT !.pc = "ws_exit", !.note = "failed"])
  /\ UNCHANGED <<hpc, received, cycles, requests, regAt, netSubs, responses, reply, db, tasks>>

\* lines 194-196, 248-249: ParseFromString raises inside the try of
\* _handle_upstox_binary; the except logs it and the read loop goes on
RecvMalformed ==
  /\ pc = "recv"
  /\ link = "up"
  /\ Len(dropped) < lim.drops
  /\ dropped' = Append(dropped, [kind |-> "malformed", at |-> clock])
  /\ Becomes([Now EXCEPT !.pc = "recv"])
  /\ UNCHANGED <<hpc, received, cycles, requests, regAt, netSubs, responses, reply, db, tasks>>

\* a text frame that ends the read loop
RecvTextEndsSession ==
  /\ pc = "recv"
  /\ link = "up"
  /\ Len(dropped) < lim.drops
  /\ dropped' = Append(dropped, [kind |-> "text", at |-> clock])
  /\ Becomes([Now EXCEPT !.pc = "ws_exit", !.note = "failed"])
  /\ UNCHANGED <<hpc, received, cycles, requests, regAt, netSubs, responses, reply, db, tasks>>

\* lines 153-154: a text frame is logged
RecvText ==
  /\ pc = "recv"
  /\ link = "up"
  /\ Len(dropped) < lim.drops
  /\ dropped' = Append(dropped, [kind |-> "text", at |-> clock])
  /\ Becomes([Now EXCEPT !.pc = "recv"])
  /\ UNCHANGED <<hpc, received, cycles, requests, regAt, netSubs, responses, reply, db, tasks>>

\* line 150: the connection has closed, normally or not; the async with exits
RecvClosed ==
  /\ pc = "recv"
  /\ link = "down"
  /\ Becomes([Now EXCEPT !.pc = "ws_exit", !.note = "failed"])
  /\ UNCHANGED <<hpc, received, cycles, requests, regAt, netSubs, dropped, responses, reply, db, tasks>>

\* lines 156-165: the socket is closed and the code after the try runs
WsExit ==
  /\ pc = "ws_exit"
  /\ Becomes(Cleanup([Now EXCEPT !.link = "none"]))
  /\ UNCHANGED <<hpc, received, cycles, requests, regAt, netSubs, dropped, responses, reply, db, tasks>>

\* the upstream socket closes or breaks while the session holds it
LinkDrop ==
  /\ link = "up"
  /\ link' = "down"
  /\ UNCHANGED <<active_connections, subscribed_instruments, price_cache, upstox_connected,
                 ws, pc, bc, frame, hpc, cycles, clock, received, pushLog, lastStatus,
                 requests, decoded, regAt, netSubs, pub, pruned, broken, dropped, responses, reply,
                 db, tasks, lim, note>>

(* ----------------------- connection handler tasks --------------------- *)
FeedState == <<price_cache, upstox_connected, ws, pc, bc, frame, link, cycles, clock,
               lastStatus, decoded, pruned, broken, dropped, responses, db, tasks,
               lim, note>>

FeedVars == <<FeedState, received, reply>>

\* server.py lines 309-315: the messages of the loop over the requested keys,
\* one for every key that is in the cache, as the cache is now
RECURSIVE ReplyMsgs(_, _)
ReplyMsgs(cache, instrument_keys) ==
  IF instrument_keys = <<>> THEN <<>>
  ELSE LET key == Head(instrument_keys)
           rest == ReplyMsgs(cache, Tail(instrument_keys))
       IN IF cache[key] # NoTick THEN <<PriceMsg(key, cache[key])>> \o rest ELSE rest

\* a handler removes a connection while a broadcast loop is suspended in a send
Unregistered(c) ==
  IF pub.done THEN pub
  ELSE [pub EXCEPT !.stayed = @ \ {c},
                   !.raced = @ \/ c \in Range(active_connections)]

\* server.py line 297: accept, then append to active_connections
HConnect(c) ==
  /\ hpc[c] = "new"
  /\ c <= lim.conns
  /\ active_connections' = connect(active_connections, c)
  /\ hpc' = [hpc EXCEPT ![c] = "receive"]
  /\ regAt' = [regAt EXCEPT ![c] = clock]
  /\ UNCHANGED <<subscribed_instruments, pushLog, pub, requests, netSubs>>
  /\ UNCHANGED FeedVars

\* the first update decoded for a key (NoTick when there is none)
RECURSIVE FirstOf(_, _)
FirstOf(s, k) ==
  IF s = <<>> THEN NoTick
  ELSE IF Head(s).instrument_key = k THEN Head(s).data ELSE FirstOf(Tail(s), k)

\* cached replies that repeat the first tick decoded for each key
RepliesStale(c, instrument_keys) ==
  /\ received' = [received EXCEPT ![c] =
                    @ \o ReplyMsgs([k \in Keys |-> FirstOf(decoded, k)], instrument_keys)]
  /\ hpc' = [hpc EXCEPT ![c] = "receive"]
  /\ UNCHANGED <<active_connections, pub>>

\* server.py lines 309-315: the handler sends the cached ticks of the
\* requested keys; each send_json is written to the socket as it is called.
\* On a connection that is closed for sending the first send raises and
\* "except Exception" unregisters the connection.
Replies(c, instrument_keys) ==
  LET msgs == ReplyMsgs(price_cache, instrument_keys) IN
  IF msgs # <<>> /\ c \in broken
  THEN /\ active_connections' = disconnect(active_connections, c)
       /\ pub' = Unregistered(c)
       /\ hpc' = [hpc EXCEPT ![c] = "done"]
       /\ UNCHANGED received
  ELSE /\ received' = [received EXCEPT ![c] = @ \o msgs]
       /\ hpc' = [hpc EXCEPT ![c] = "receive"]
       /\ UNCHANGED <<active_connections, pub>>

\* server.py lines 304-315 with subscribe (lines 41-54) and _send_subscription
Subscribes(c, instrument_keys) ==
  /\ hpc[c] = "receive"
  /\ requests < lim.requests
  /\ requests' = requests + 1
  /\ LET r == SubscribeLoop(subscribed_instruments, instrument_keys, <<>>)
         new_keys == r[2]
     IN /\ subscribed_instruments' = r[1]
        /\ netSubs' = netSubs \cup Range(instrument_keys)
        /\ IF new_keys # <<>> /\ SendSubscriptionGuard(ws, upstox_connected)
           THEN IF link = "up"
                THEN \* the push is written; the handler waits in ws.send
                     /\ pushLog' = Append(pushLog, [kind |-> "subscribe",
                                                    keys |-> Range(new_keys)])
                     /\ hpc' = [hpc EXCEPT ![c] = "ws_send"]
                     /\ reply' = [reply EXCEPT ![c] = instrument_keys]
                     /\ UNCHANGED <<active_connections, pub, received>>
                ELSE \* ws.send raises; "except Exception" unregisters the connection
                     /\ active_connections' = disconnect(active_connections, c)
                     /\ pub' = Unregistered(c)
                     /\ hpc' = [hpc EXCEPT ![c] = "done"]
                     /\ UNCHANGED <<pushLog, received, reply>>
           ELSE \* subscribe returns without suspending
                /\ Replies(c, instrument_keys)
                /\ UNCHANGED <<pushLog, reply>>
  /\ UNCHANGED regAt
  /\ UNCHANGED FeedState

HSubscribe(c) ==
  \E instrument_keys \in SeqsUpTo(Keys, MaxKeysPerCall) : Subscribes(c, instrument_keys)

\* the push a handler waits for returns and the handler sends its cached
\* replies, or the push raises when the socket has closed
HSendDone(c) ==
  /\ hpc[c] = "ws_send"
  /\ \/ Replies(c, reply[c])
     \/ /\ link # "up"
        /\ active_connections' = disconnect(active_connections, c)
        /\ pub' = Unregistered(c)
        /\ hpc' = [hpc EXCEPT ![c] = "done"]
        /\ UNCHANGED received
  /\ reply' = [reply EXCEPT ![c] = <<>>]
  /\ UNCHANGED <<subscribed_instruments, pushLog, requests, regAt, netSubs>>
  /\ UNCHANGED FeedState

\* server.py lines 317-319 with unsubscribe (lines 56-58)
Unsubscribes(c, instrument_keys) ==
  /\ hpc[c] = "receive"
  /\ requests < lim.requests
  /\ requests' = requests + 1
  /\ instrument_keys # <<>>
  /\ subscribed_instruments' = UnsubscribeLoop(subscribed_instruments, instrument_keys)
  /\ netSubs' = netSubs \ Range(instrument_keys)
  /\ UNCHANGED <<active_connections, hpc, pushLog, pub, regAt>>
  /\ UNCHANGED FeedVars

HUnsubscribe(c) ==
  \E instrument_keys \in SeqsUpTo(Keys, MaxKeysPerCall) : Unsubscribes(c, instrument_keys)

\* server.py lines 321-325: receive_json raises, the handler unregisters and ends
HDisconnect(c) ==
  /\ hpc[c] = "receive"
  /\ active_connections' = disconnect(active_connections, c)
  /\ pub' = Unregistered(c)
  /\ hpc' = [hpc EXCEPT ![c] = "done"]
  /\ UNCHANGED <<subscribed_instruments, pushLog, requests, regAt, netSubs>>
  /\ UNCHANGED FeedVars

\* the handler task is cancelled at one of its awaits (receive_json, or the
\* upstream push inside subscribe): CancelledError is not an Exception, so
\* neither except clause of lines 321-325 runs and the task ends
HCancel(c) ==
  /\ hpc[c] \in {"receive", "ws_send"}
  /\ Cardinality({d \in Conns : hpc[d] = "cancelled"}) < lim.cancels
  /\ hpc' = [hpc EXCEPT ![c] = "cancelled"]
  /\ UNCHANGED <<active_connections, subscribed_instruments, pushLog, pub, requests, regAt,
                 netSubs>>
  /\ UNCHANGED FeedVars

(* -------------------------- HTTP price reads -------------------------- *)
\* a read that returns every cached tick, requested or not
get_multiple_prices_all(cache, keys) ==
  [k \in {j \in Keys : cache[j] # NoTick} |-> cache[k]]

\* server.py lines 328-332: the cached tick, or 404 when the key is absent
get_stock_price(cache, instrument_key) ==
  IF cache[instrument_key] # NoTick
  THEN [status |-> 200, body |-> cache[instrument_key]]
  ELSE [status |-> 404, body |-> NoTick]

\* server.py lines 335-342: the dict built by the loop over the requested keys
get_multiple_prices(cache, keys) ==
  [k \in {j \in Range(keys) : cache[j] # NoTick} |-> cache[k]]

GetStockPrice ==
  /\ Len(responses) < lim.reads
  /\ \E instrument_key \in Keys :
       responses' = Append(responses, [op |-> "price", keys |-> <<instrument_key>>,
                                       result |-> get_stock_price(price_cache, instrument_key)])
  /\ UNCHANGED <<active_connections, subscribed_instruments, price_cache, upstox_connected,
                 ws, pc, bc, frame, hpc, link, cycles, clock, received, pushLog, lastStatus,
                 requests, decoded, regAt, netSubs, pub, pruned, broken, dropped, reply,
                 db, tasks, lim, note>>

GetMultiplePrices ==
  /\ Len(responses) < lim.reads
  /\ \E keys \in SeqsUpTo(Keys, MaxKeysPerCall) :
       /\ keys # <<>>
       /\ responses' = Append(responses, [op |-> "prices", keys |-> keys,
                                          result |-> get_multiple_prices(price_cache, keys)])
  /\ UNCHANGED <<active_connections, subscribed_instruments, price_cache, upstox_connected,
                 ws, pc, bc, frame, hpc, link, cycles, clock, received, pushLog, lastStatus,
                 requests, decoded, regAt, netSubs, pub, pruned, broken, dropped, reply,
                 db, tasks, lim, note>>

(* ------------------------------ trading ------------------------------ *)
\* trade_engine.py lines 7-8 and 38: STARTING_CAPITAL * MAX_SINGLE_STOCK_ALLOCATION
STARTING_CAPITAL == 1000000
max_investment == STARTING_CAPITAL \div 2

\* market_timing.py lines 20-21, as seconds of the day
market_open == (9 * 60 + 15) * 60
market_close == (15 * 60 + 30) * 60 + 30

\* the moments a request may be validated at: a Friday just before the
\* opening, at the opening, at the close, just after the close; a Saturday
Nows ==
  {[weekday |-> 4, time |-> market_open - 1], [weekday |-> 4, time |-> market_open],
   [weekday |-> 4, time |-> market_close], [weekday |-> 4, time |-> market_close + 1],
   [weekday |-> 5, time |-> market_open]}

\* market_timing.py lines 11-32: (is_open, which message)
is_market_open(contest_active, now) ==
  IF ~contest_active THEN <<FALSE, "contest_inactive">>
  ELSE IF now.weekday >= 5 THEN <<FALSE, "weekend">>
  ELSE IF now.time < market_open THEN <<FALSE, "before_open">>
  ELSE IF now.time > market_close THEN <<FALSE, "after_close">>
  ELSE <<TRUE, "open">>

RECURSIVE Gcd(_, _)
Gcd(a, b) == IF b = 0 THEN a ELSE Gcd(b, a % b)

\* avg_price is kept as an exact quotient
Rat(n, d) == [num |-> n \div Gcd(n, d), den |-> d \div Gcd(n, d)]

Tasks == 1..MaxTrades
TradeRequests == [instrument_key : Keys, quantity : TradeQuantities, trade_type : {"BUY", "SELL"}]
NoTrade == [instrument_key |-> 0, quantity |-> 0, trade_type |-> "none"]
NoWrite == [op |-> "none"]
NewTask == [pc |-> "new", trade |-> NoTrade, price |-> 0, write |-> NoWrite, why |-> "none"]

\* server.py lines 168-169: the user as registered, nothing bought, no order;
\* lines 376 and 600-636: the contest configuration
InitDb(trading_active) ==
  [virtual_balance |-> STARTING_CAPITAL, trade_count |-> 0, portfolio |-> <<>>,
   orders |-> <<>>, trading_active |-> trading_active]

\* a tick at the trade price, as the decoder caches it (lines 236-243)
TradeTick ==
  [last_price |-> TradePrice, close_price |-> 0, open_price |-> TradePrice, timestamp |-> 1,
   change_percent |-> 0]

\* db.portfolio.find_one: the position of the first holding of the key, 0 if none
find_one(portfolio, instrument_key) ==
  IF \E n \in 1..Len(portfolio) : portfolio[n].instrument_key = instrument_key
  THEN CHOOSE n \in 1..Len(portfolio) :
         /\ portfolio[n].instrument_key = instrument_key
         /\ \A o \in 1..(n - 1) : portfolio[o].instrument_key # instrument_key
  ELSE 0

\* what the pending portfolio write of execute_trade does to the collection;
\* update_one and delete_one act on the first holding of the key that is
\* there when they run, and do nothing when there is none
ApplyWrite(portfolio, w) ==
  LET n == find_one(portfolio, w.instrument_key) IN
  CASE w.op = "insert" ->
         Append(portfolio, [instrument_key |-> w.instrument_key, quantity |-> w.quantity,
                            avg_price |-> w.avg_price])
    [] w.op = "set" /\ n # 0 ->
         [portfolio EXCEPT ![n] = [@ EXCEPT !.quantity = w.quantity, !.avg_price = w.avg_price]]
    [] w.op = "set_quantity" /\ n # 0 ->
         [portfolio EXCEPT ![n] = [@ EXCEPT !.quantity = w.quantity]]
    [] w.op = "delete" /\ n # 0 ->
         [o \in 1..(Len(portfolio) - 1) |-> IF o < n THEN portfolio[o] ELSE portfolio[o + 1]]
    [] OTHER -> portfolio

\* the request ends: its locals go
Ends(i, how, why) ==
  tasks' = [tasks EXCEPT ![i] = [NewTask EXCEPT !.pc = how, !.why = why]]

\* a rejection that still counts as a trade of the user
RejectCounted(i, why) ==
  /\ Ends(i, "rejected", why)
  /\ db' = [db EXCEPT !.trade_count = @ + 1]

\* raise HTTPException (server.py line 372, trade_engine.py lines 16, 32,
\* 53, 72, 80): the request is answered with the error, nothing is written
Reject(i, why) ==
  /\ Ends(i, "rejected", why)
  /\ UNCHANGED db

ServerVars == <<active_connections, subscribed_instruments, price_cache, upstox_connected, ws,
                pc, bc, frame, hpc, link, cycles, clock, received, pushLog, lastStatus,
                requests, decoded, regAt, netSubs, pub, pruned, broken, dropped, responses,
                reply, lim, note>>

\* server.py lines 366-376: a request arrives; no cached price is a 404,
\* otherwise the price is read and the task awaits the contest configuration
PlaceTrade(i) ==
  /\ tasks[i].pc = "new"
  /\ i > 1 => tasks[i - 1].pc # "new"
  /\ \E trade \in TradeRequests :
       IF price_cache[trade.instrument_key] = NoTick
       THEN Reject(i, "no_price")
       ELSE /\ tasks' = [tasks EXCEPT ![i] =
                          [NewTask EXCEPT !.pc = "config", !.trade = trade,
                                          !.price = price_cache[trade.instrument_key].last_price]]
            /\ UNCHANGED db
  /\ UNCHANGED ServerVars

\* server.py lines 376-379 and trade_engine.py lines 14-21: the configuration
\* is there; validate_trade checks the market and awaits the user's document
ConfigRead(i) ==
  /\ tasks[i].pc = "config"
  /\ \E now \in Nows :
       LET is_open == is_market_open(db.trading_active, now) IN
       IF ~is_open[1] THEN Reject(i, is_open[2])
       ELSE /\ tasks' = [tasks EXCEPT ![i].pc = "v_user"]
            /\ UNCHANGED db
  /\ UNCHANGED ServerVars

\* trade_engine.py lines 21-44 and 64-69: the user's document is there; a BUY
\* that costs more than the balance is rejected; otherwise the task awaits
\* the holding
UserRead(i) ==
  /\ tasks[i].pc = "v_user"
  /\ LET trade == tasks[i].trade
         balance == db.virtual_balance
         total_cost == tasks[i].price * trade.quantity
     IN IF trade.trade_type = "BUY" /\ balance < total_cost
        THEN Reject(i, "balance")
        ELSE /\ tasks' = [tasks EXCEPT ![i].pc = "v_holding"]
             /\ UNCHANGED db
  /\ UNCHANGED ServerVars

\* trade_engine.py lines 46-62 and 71-91, server.py line 382, trade_engine.py
\* lines 96-112 and 142-153: the holding is there; the allocation rule for a
\* BUY, ownership and quantity for a SELL; a valid trade goes on to
\* execute_trade, which awaits its update of the user's document
HoldingRead(i) ==
  /\ tasks[i].pc = "v_holding"
  /\ LET trade == tasks[i].trade
         n == find_one(db.portfolio, trade.instrument_key)
         holding == db.portfolio[n]
         total_cost == tasks[i].price * trade.quantity
     IN IF trade.trade_type = "BUY"
        THEN \* current_investment + total_cost > max_investment, over the
             \* denominator of avg_price
             IF n # 0 /\ holding.avg_price.num * holding.quantity
                            + total_cost * holding.avg_price.den
                          > max_investment * holding.avg_price.den
             THEN Reject(i, "allocation")
             ELSE IF n = 0 /\ total_cost > max_investment
             THEN Reject(i, "allocation")
             ELSE /\ tasks' = [tasks EXCEPT ![i].pc = "e_user"]
                  /\ UNCHANGED db
        ELSE IF n = 0 THEN Reject(i, "not_owned")
             ELSE IF holding.quantity < trade.quantity THEN Reject(i, "quantity")
             ELSE /\ tasks' = [tasks EXCEPT ![i].pc = "e_user"]
                  /\ UNCHANGED db
  /\ UNCHANGED ServerVars

\* trade_engine.py lines 104-118 and 145-159: the $inc of the balance and of
\* the trade count has run; the task awaits the holding
UserUpdate(i) ==
  /\ tasks[i].pc = "e_user"
  /\ LET trade == tasks[i].trade
         total_amount == tasks[i].price * trade.quantity
     IN db' = [db EXCEPT !.virtual_balance =
                           IF trade.trade_type = "BUY" THEN @ - total_amount
                                                       ELSE @ + total_amount,
                         !.trade_count = @ + 1]
  /\ tasks' = [tasks EXCEPT ![i].pc = "e_holding"]
  /\ UNCHANGED ServerVars

\* trade_engine.py lines 120-139 and 161-174: the holding is there and the
\* write to the portfolio is decided from it.  A SELL that finds no holding
\* fails at holding['quantity'] (TypeError, an internal server error).
HoldingFind(i) ==
  /\ tasks[i].pc = "e_holding"
  /\ LET trade == tasks[i].trade
         price == tasks[i].price
         n == find_one(db.portfolio, trade.instrument_key)
         holding == db.portfolio[n]
         new_qty == IF trade.trade_type = "BUY" THEN holding.quantity + trade.quantity
                                                ELSE holding.quantity - trade.quantity
         w == [instrument_key |-> trade.instrument_key]
     IN IF trade.trade_type = "BUY"
        THEN tasks' = [tasks EXCEPT ![i].pc = "e_portfolio", ![i].write =
               IF n # 0
               THEN w @@ [op |-> "set", quantity |-> new_qty,
                          avg_price |-> Rat(holding.avg_price.num * holding.quantity
                                              + price * trade.quantity * holding.avg_price.den,
                                            holding.avg_price.den * new_qty)]
               ELSE w @@ [op |-> "insert", quantity |-> trade.quantity,
                          avg_price |-> Rat(price, 1)]]
        ELSE IF n = 0 THEN Ends(i, "failed", "TypeError")
             ELSE tasks' = [tasks EXCEPT ![i].pc = "e_portfolio", ![i].write =
                    IF new_qty = 0 THEN w @@ [op |-> "delete"]
                    ELSE w @@ [op |-> "set_quantity", quantity |-> new_qty]]
  /\ UNCHANGED db
  /\ UNCHANGED ServerVars

\* trade_engine.py lines 127-139 and 165-174: the write to the portfolio has
\* run; lines 177-189: the task awaits the insert of the order
PortfolioWrite(i) ==
  /\ tasks[i].pc = "e_portfolio"
  /\ db' = [db EXCEPT !.portfolio = ApplyWrite(@, tasks[i].write)]
  /\ tasks' = [tasks EXCEPT ![i].pc = "e_order", ![i].write = NoWrite]
  /\ UNCHANGED ServerVars

\* trade_engine.py lines 189-191: the order is recorded and returned
OrderInsert(i) ==
  /\ tasks[i].pc = "e_order"
  /\ LET trade == tasks[i].trade IN
     db' = [db EXCEPT !.orders = Append(@, [instrument_key |-> trade.instrument_key,
                                            trade_type |-> trade.trade_type,
                                            quantity |-> trade.quantity,
                                            price |-> tasks[i].price,
                                            total_amount |-> tasks[i].price * trade.quantity])]
  /\ Ends(i, "done", "none")
  /\ UNCHANGED ServerVars

\* the trading requests of one user, with prices in the cache
TradeInit ==
  /\ active_connections = <<>>
  /\ subscribed_instruments = {}
  /\ price_cache \in [Keys -> {NoTick, TradeTick}]
  /\ upstox_connected = FALSE
  /\ ws = None
  /\ pc = "find_one"
  /\ bc = NoBc
  /\ frame = <<>>
  /\ hpc = [c \in Conns |-> "new"]
  /\ link = "none"
  /\ cycles = 0
  /\ clock = 0
  /\ received = [c \in Conns |-> <<>>]
  /\ pushLog = <<>>
  /\ lastStatus = "none"
  /\ requests = 0
  /\ decoded = <<>>
  /\ regAt = [c \in Conns |-> 0]
  /\ netSubs = {}
  /\ pub = NoPub
  /\ pruned = {}
  /\ broken = {}
  /\ dropped = <<>>
  /\ responses = <<>>
  /\ reply = [c \in Conns |-> <<>>]
  /\ note = "start"
  /\ lim \in {l \in Profiles : l.priced > 0}
  /\ \E trading_active \in BOOLEAN : db = InitDb(trading_active)
  /\ tasks = [i \in Tasks |-> NewTask]

TradeNext ==
  \E i \in Tasks :
    \/ PlaceTrade(i) \/ ConfigRead(i) \/ UserRead(i) \/ HoldingRead(i)
    \/ UserUpdate(i) \/ HoldingFind(i) \/ PortfolioWrite(i) \/ OrderInsert(i)

TradeSpec == TradeInit /\ [][TradeNext]_vars

(* --------------------------- specification ---------------------------- *)
Init ==
  /\ active_connections = <<>>
  /\ subscribed_instruments = {}
  /\ price_cache = [k \in Keys |-> NoTick]
  /\ upstox_connected = FALSE
  /\ ws = None
  /\ pc = "find_one"
  /\ bc = NoBc
  /\ frame = <<>>
  /\ hpc = [c \in Conns |-> "new"]
  /\ link = "none"
  /\ cycles = 0
  /\ clock = 0
  /\ received = [c \in Conns |-> <<>>]
  /\ pushLog = <<>>
  /\ lastStatus = "none"
  /\ requests = 0
  /\ decoded = <<>>
  /\ regAt = [c \in Conns |-> 0]
  /\ netSubs = {}
  /\ pub = NoPub
  /\ pruned = {}
  /\ broken = {}
  /\ dropped = <<>>
  /\ responses = <<>>
  /\ reply = [c \in Conns |-> <<>>]
  /\ note = "start"
  /\ lim \in Profiles
  /\ db = InitDb(TRUE)
  /\ tasks = [i \in Tasks |-> NewTask]

Feed ==
  \/ FindOne \/ SleepDone \/ Authorize \/ WsConnectOk \/ WsConnectFail
  \/ SendDone \/ WsSendDone \/ RecvBinary \/ RecvMalformed \/ RecvText
  \/ RecvClosed \/ WsExit

Handler(c) ==
  \/ HConnect(c) \/ HSubscribe(c) \/ HSendDone(c) \/ HUnsubscribe(c) \/ HDisconnect(c)
  \/ HCancel(c)

Reader == GetStockPrice \/ GetMultiplePrices

Next == Feed \/ LinkDrop \/ Reader \/ \E c \in Conns : Handler(c)

Spec == Init /\ [][Next]_vars

(* ------------------------- process shutdown --------------------------- *)
\* server.py line 97: feed_task.cancel().  CancelledError is raised at the
\* await the feed task is suspended in; it is not an Exception, so neither
\* except clause of lines 156-159 catches it and the code after the try
\* (lines 161-165) does not run.  Leaving "async with websockets.connect"
\* closes the upstream socket.  The task has ended.
Shutdown ==
  /\ pc # "cancelled"
  /\ Becomes([Now EXCEPT !.pc = "cancelled", !.bc = NoBc, !.frame = <<>>, !.link = "none"])
  /\ UNCHANGED <<hpc, received, cycles, requests, regAt, netSubs, dropped, responses, reply, db, tasks>>

\* the server up to and including its shutdown
ShutdownNext == Next \/ Shutdown

ShutdownSpec == Init /\ [][ShutdownNext]_vars

(* ============================== claims ================================ *)
IsPrice(msg) == msg.type = "price_update"

\* the publish of pub.msg has run to its end
PublishDone == pub.done /\ IsPrice(pub.msg)

\* connections registered from the start to the end of the publish whose send returned
Served == pub.stayed \ pub.failed

\* the last update decoded for a key (NoTick when there is none)
RECURSIVE LastOf(_, _)
LastOf(s, k) ==
  IF s = <<>> THEN NoTick
  ELSE IF s[Len(s)].instrument_key = k THEN s[Len(s)].data
       ELSE LastOf(SubSeq(s, 1, Len(s) - 1), k)

\* s holds a and, later, b
InOrder(s, a, b) == \E p, q \in 1..Len(s) : p < q /\ s[p] = a /\ s[q] = b

\* C1: when a price publish ends, every connection that was registered for
\* the whole publish and whose send did not fail holds the update exactly
\* once, whatever other connections registered or unregistered meanwhile.
\* (A subscribe request of the connection repeats the cached tick in its
\* replies; the count is exact for connections that made no request.)
C1_DeliveredOnce ==
  PublishDone => \A c \in Served : /\ Count(received[c], pub.msg) >= 1
                                   /\ requests = 0 => Count(received[c], pub.msg) = 1

C3_BothInOrder ==
  \A i, j \in 1..Len(decoded) :
    (/\ i < j
     /\ decoded[i].instrument_key = decoded[j].instrument_key
     /\ (j < Len(decoded) \/ pub.done))
    => /\ j = Len(decoded) => price_cache[decoded[j].instrument_key] = decoded[j].data
       /\ \A c \in Range(active_connections) :
            regAt[c] < decoded[i].data.timestamp
            => InOrder(received[c], decoded[i], decoded[j])

\* C4: the cache holds, for every key, the update decoded last for that key
\* (one value per key, none when no tick was decoded for it).
C4_CacheLatest ==
  \A k \in Keys : price_cache[k] = LastOf(decoded, k)

C4_Witness ==
  /\ Len(decoded) = 2
  /\ decoded[1].instrument_key = decoded[2].instrument_key
  /\ price_cache[decoded[2].instrument_key] = decoded[2].data
  /\ price_cache[decoded[2].instrument_key] # decoded[1].data

\* C5: the subscription set is the net effect of the subscribe and
\* unsubscribe requests made so far, in every state; the feed loop's
\* connect, disconnect and reconnect steps leave it as it is.
C5_NetEffect == subscribed_instruments = netSubs

\* a key is still subscribed after the session was lost and set up again
C5_Witness ==
  /\ cycles = 2 /\ upstox_connected /\ pc = "recv"
  /\ Count(received[1], StatusMsg("connected")) = 2
  /\ requests = 2 /\ subscribed_instruments # {} /\ subscribed_instruments # Keys
  /\ subscribed_instruments = netSubs

ConnectPushes == {i \in 1..Len(pushLog) : pushLog[i].kind = "connect"}

\* C6: on a connection opened with a non-empty subscription set, the connect
\* step sends no more than one push, and that push repeats no key pushed
\* earlier on that connection (by a subscribe running during the connect).
C6_OnePushNoRepeat ==
  (pushLog # <<>> /\ pushLog[1].keys # {})
  => /\ Cardinality(ConnectPushes) <= 1
     /\ \A i \in ConnectPushes :
          \A j \in 2..(i - 1) : pushLog[j].keys \cap pushLog[i].keys = {}

Streaming == ws # None /\ upstox_connected /\ link = "up"

\* a subscribe request that adds at least one key
AddsKeys ==
  /\ requests' = requests + 1
  /\ subscribed_instruments' # subscribed_instruments
  /\ subscribed_instruments \subseteq subscribed_instruments'

\* C7: a subscribe that adds keys while the session is streaming sends one
\* push holding exactly the added keys; while it is not streaming it sends
\* nothing.
C7_PushOnlyNew ==
  [][AddsKeys =>
       IF Streaming
       THEN pushLog' = Append(pushLog, [kind |-> "subscribe",
                                        keys |-> subscribed_instruments'
                                                   \ subscribed_instruments])
       ELSE pushLog' = pushLog]_vars

\* the session holds key 1 from its connect push and key 2 from a subscribe
C7_Witness ==
  /\ Len(pushLog) = 3
  /\ pushLog[2] = [kind |-> "connect", keys |-> {1}]
  /\ pushLog[3] = [kind |-> "subscribe", keys |-> {2}]
  /\ subscribed_instruments = {1, 2}

C9_CleanedUp ==
  (note = "failed" /\ pc \in {"sleep5", "find_one"})
  => /\ ~upstox_connected
     /\ ws = None
     /\ lastStatus = "disconnected"
     /\ pub.done /\ pub.msg = StatusMsg("disconnected")
     /\ ~pub.raced =>
          \A c \in Served :
            \E i \in 1..Len(received[c]) :
              /\ received[c][i] = StatusMsg("disconnected")
              /\ \A j \in (i + 1)..Len(received[c]) : IsPrice(received[c][j])

\* a streaming session was lost: the connection saw connected, then disconnected
C9_Witness ==
  /\ note = "failed" /\ pc = "sleep5" /\ ws = None /\ ~upstox_connected
  /\ 1 \in Served
  /\ InOrder(received[1], StatusMsg("connected"), StatusMsg("disconnected"))

ConnectionStatus == {"connecting", "connected", "disconnected", "auth_error"}

\* C10: every status broadcast is one of connecting, connected, disconnected,
\* auth_error, and the one broadcast after a 401 is auth_error.
C10_StatusValues ==
  /\ lastStatus # "none" => lastStatus \in ConnectionStatus
  /\ note = "auth_401" => lastStatus = "auth_error"

\* what the feed cycle owns or reports: connection status, session handle,
\* upstream socket, status events, and the two registries
SessionState == <<upstox_connected, ws, link, subscribed_instruments, price_cache,
                  lastStatus, received, pushLog, pub, bc>>

\* C11: the feed step that finds the credential absent goes to the 30 s wait
\* without an authorize or connect attempt and without a status broadcast,
\* leaving connection status, session handle, subscription set and price
\* cache as they are; the step that ends the wait goes back to reading the
\* credential, again changing none of them.
C11_AbsentWaits ==
  [][/\ (pc = "find_one" /\ cycles' # cycles /\ note' = "no_token")
          => pc' = "sleep30" /\ UNCHANGED SessionState
     /\ (pc = "sleep30" /\ pc' # pc)
          => pc' = "find_one" /\ UNCHANGED SessionState]_vars

\* a session was lost with a key subscribed; the next cycle found no
\* credential, waited, and is back at reading it
C11_Witness ==
  /\ pc = "find_one" /\ cycles = 2 /\ note = "no_token"
  /\ lastStatus = "disconnected" /\ subscribed_instruments # {}
  /\ ~upstox_connected /\ ws = None

\* C12: a record with no last-price value (its ltp reads 0) yields no tick:
\* no update is built from it, the cache holds none, none is delivered.
C12_NoPriceNoTick ==
  /\ \A i \in 1..Len(decoded) : decoded[i].data.last_price # 0
  /\ \A k \in Keys : price_cache[k] # NoTick => price_cache[k].last_price # 0
  /\ \A c \in Conns : \A i \in 1..Len(received[c]) :
       IsPrice(received[c][i]) => received[c][i].data.last_price # 0

\* a step in which the decoder drops a malformed frame
DropsMalformed ==
  /\ Len(dropped') = Len(dropped) + 1
  /\ dropped'[Len(dropped')].kind = "malformed"

\* C13: the step that drops a malformed frame is taken by a streaming
\* session waiting for a frame and leaves it so; it changes neither the price
\* cache nor the connection status, and publishes and delivers nothing.
C13_MalformedDropped ==
  [][DropsMalformed =>
       /\ pc = "recv" /\ pc' = "recv"
       /\ Streaming /\ Streaming'
       /\ UNCHANGED <<SessionState, decoded, active_connections, note>>]_vars

\* a malformed frame was dropped, and the frame read after it was decoded,
\* cached and delivered
C13_Witness ==
  /\ dropped = <<[kind |-> "malformed", at |-> 0]>>
  /\ Len(decoded) = 1 /\ pub.done
  /\ price_cache[decoded[1].instrument_key] = decoded[1].data
  /\ received[1] = <<StatusMsg("connected"), decoded[1]>>
  /\ upstox_connected /\ pc = "recv"

\* C14: a subscribe or unsubscribe request applies its registry mutation,
\* and neither the request nor the upstream push it waits for ends the
\* handler that made it: no failure of the push is raised to the caller.
C14_CallerUnaffected ==
  [][/\ requests' # requests => subscribed_instruments' = netSubs'
     /\ \A c \in Conns :
          (hpc[c] = "ws_send" \/ (hpc[c] = "receive" /\ requests' # requests))
          => hpc'[c] \in {"receive", "ws_send"}]_vars

\* C16: once a connection's handler task has ended, by a close, an error or
\* a cancellation, the connection is not in active_connections.
C16_ExitUnregisters ==
  \A c \in Conns : hpc[c] \in {"done", "cancelled"} => c \notin Range(active_connections)

\* C17: once shutdown has cancelled the feed task, the upstream socket is
\* closed and the session is not reported as connected: upstox_connected is
\* false and ws is cleared.
C17_ShutdownClean ==
  pc = "cancelled" => (link = "none" /\ ~upstox_connected /\ ws = None)

\* C18: for every connection c, registered or not, disconnect(c) raises
\* nothing, a second disconnect(c) changes nothing more, and disconnect(c)
\* for a c that is not registered leaves active_connections as it is; the
\* step that ends a handler applies exactly disconnect(c).
C18_DisconnectIdempotent ==
  [][\A c \in Conns :
       LET once == disconnect(active_connections, c) IN
       /\ once # ValueError
       /\ disconnect(once, c) = once
       /\ c \notin Range(active_connections) => once = active_connections
       /\ (hpc[c] # "done" /\ hpc'[c] = "done") => active_connections' = once]_vars

\* a publish removed a connection after a failed send, then its handler ended
\* and called disconnect for it again; another connection is still registered
C18_Witness ==
  \E c \in pruned : hpc[c] = "done" /\ active_connections # <<>>
                     /\ c \notin Range(active_connections)

\* a status broadcast has run to its end
StatusDone == pub.done /\ pub.msg.type = "status"

\* C19: when a status broadcast ends, every connection whose send failed in
\* it is out of active_connections, and (no handler having unregistered a
\* connection meanwhile) every other connection registered throughout holds
\* the status event.
C19_StatusBestEffort ==
  StatusDone
  => /\ pub.failed \cap Range(active_connections) = {}
     /\ ~pub.raced => \A c \in Served : Count(received[c], pub.msg) >= 1

\* C20: the step that registers a connection delivers nothing to it, and a
\* tick or status event is delivered to a registered connection only by a
\* publish that began when the connection was already registered.
C20_NoReplay ==
  [][\A c \in Conns :
       /\ (hpc[c] = "new" /\ hpc'[c] # "new") => received'[c] = received[c]
       /\ (received'[c] # received[c] /\ c \in Range(active_connections))
            => c \in pub.stayed]_vars

Abs(x) == IF x < 0 THEN -x ELSE x

\* pct, in hundredths of a percent, is (last - base) / base * 100 rounded to
\* two decimals: it is within half a hundredth of the exact quotient
IsPercentOf(pct, last, base) == 2 * Abs(pct * base - (last - base) * 10000) <= Abs(base)

\* C21: the change-percent of every decoded tick is (last_price - close_price)
\* / close_price * 100 when the record carries a close price, and otherwise
\* (last_price - open_price) / open_price * 100 against the session-open
\* price recorded for the instrument, to two decimals.
C21_ChangePercent ==
  \A i \in 1..Len(decoded) :
    LET d == decoded[i].data IN
    /\ d.close_price # 0 => IsPercentOf(d.change_percent, d.last_price, d.close_price)
    /\ (d.close_price = 0 /\ d.open_price # 0)
         => IsPercentOf(d.change_percent, d.last_price, d.open_price)

\* the ticks 100 (no close price), 105 (close price 102), 98 (no close price)
\* of one instrument gave 0, 2.94 and -2.00, with open_price 100
C21_Witness ==
  /\ Len(decoded) = 3
  /\ \A i \in 1..3 : decoded[i].instrument_key = 1 /\ decoded[i].data.open_price = 100
  /\ decoded[1].data.last_price = 100 /\ decoded[1].data.close_price = 0
  /\ decoded[1].data.change_percent = 0
  /\ decoded[2].data.last_price = 105 /\ decoded[2].data.close_price = 102
  /\ decoded[2].data.change_percent = 294
  /\ decoded[3].data.last_price = 98 /\ decoded[3].data.close_price = 0
  /\ decoded[3].data.change_percent = -200

\* C22: every tick decoded for an instrument carries as open_price the last
\* price of the first tick decoded for that instrument, whatever happened
\* in between, and an instrument that has had a tick is in the cache, with
\* that open_price.
C22_OpenPriceFixed ==
  /\ \A i \in 1..Len(decoded) :
       decoded[i].data.open_price = FirstOf(decoded, decoded[i].instrument_key).last_price
  /\ \A k \in Keys :
       FirstOf(decoded, k) # NoTick
       => /\ price_cache[k] # NoTick
          /\ price_cache[k].open_price = FirstOf(decoded, k).last_price

\* a tick at 100 was decoded in one session and, after a reconnect, a tick at
\* 105 of the same instrument: the cache holds open_price 100
C22_Witness ==
  /\ cycles = 2 /\ upstox_connected /\ pushLog # <<>> /\ pushLog[1].at = 1
  /\ Len(decoded) = 2 /\ decoded[1].instrument_key = decoded[2].instrument_key
  /\ decoded[1].data.last_price = 100 /\ decoded[2].data.last_price = 105
  /\ price_cache[decoded[2].instrument_key].open_price = 100
  /\ price_cache[decoded[2].instrument_key].last_price = 105

\* C23: an unsubscribe request for keys leaves in the subscription set
\* exactly the keys that were there and are not among the given ones, writes
\* nothing to the upstream socket, streaming or not, and leaves the price
\* cache and the downstream connections as they are.
C23_UnsubscribeLocal ==
  [][\A c \in Conns : \A keys \in SeqsUpTo(Keys, MaxKeysPerCall) :
       Unsubscribes(c, keys)
       => /\ subscribed_instruments' = subscribed_instruments \ Range(keys)
          /\ UNCHANGED <<pushLog, price_cache, active_connections, received, hpc,
                         upstox_connected, ws>>]_vars

\* a key was subscribed and pushed on a streaming session opened with an
\* empty set, then unsubscribed: nothing more was written upstream
C23_Witness ==
  /\ Streaming /\ requests = 2 /\ subscribed_instruments = {}
  /\ Len(pushLog) = 2 /\ pushLog[1].keys = {} /\ pushLog[2].kind = "subscribe"

\* C24: a subscribe request for keys leaves in the subscription set exactly
\* the keys that were there and the given ones; when every given key was
\* there already (an empty list, a repeated call) the set is unchanged,
\* nothing is written upstream and the handler goes on.
C24_SubscribeAdds ==
  [][\A c \in Conns : \A keys \in SeqsUpTo(Keys, MaxKeysPerCall) :
       Subscribes(c, keys)
       => /\ subscribed_instruments' = subscribed_instruments \cup Range(keys)
          /\ Range(keys) \subseteq subscribed_instruments
               => UNCHANGED <<subscribed_instruments, pushLog, hpc, active_connections>>]_vars

\* on a streaming session a key was subscribed and pushed, and a second
\* request that added nothing wrote nothing more
C24_Witness ==
  /\ Streaming /\ requests = 2 /\ subscribed_instruments = {1}
  /\ pushLog = <<[kind |-> "open", keys |-> {}, at |-> 0],
                 [kind |-> "subscribe", keys |-> {1}]>>
  /\ hpc[1] = "receive"

\* the keys that have a tick in the cache
Cached == {k \in Keys : price_cache[k] # NoTick}

\* the response of the read made in this step is as the cache is
ReadsAsCached ==
  LET r == responses'[Len(responses')] IN
  /\ UNCHANGED price_cache
  /\ r.op = "price"
       => r.result = IF r.keys[1] \in Cached
                     THEN [status |-> 200, body |-> price_cache[r.keys[1]]]
                     ELSE [status |-> 404, body |-> NoTick]
  /\ r.op = "prices"
       => /\ DOMAIN r.result = Range(r.keys) \cap Cached
          /\ \A k \in DOMAIN r.result : r.result[k] = price_cache[k]

\* C25: a step changes the cache entry of a key only by decoding a tick of
\* that key, which then is the entry; every other step (subscribe,
\* unsubscribe, connect, disconnect, status broadcasts, the connect, cleanup
\* and backoff steps of the feed loop) leaves the cache as it is.  A price
\* read returns the cached ticks of the requested keys that are present,
\* those only, and leaves the cache as it is.
C25_CacheWrittenByDecoder ==
  [][/\ \A k \in Keys :
          price_cache'[k] # price_cache[k]
          => /\ Len(decoded') > Len(decoded)
             /\ \E i \in (Len(decoded) + 1)..Len(decoded') :
                  decoded'[i].instrument_key = k
             /\ price_cache'[k] = LastOf(decoded', k)
     /\ decoded' = decoded => price_cache' = price_cache
     /\ responses' # responses => ReadsAsCached]_vars

\* a tick was cached for one key, a read of both keys returned that tick
\* alone, and the session's loss and cleanup left the cache as it was
C25_Witness ==
  /\ Len(responses) = 1 /\ responses[1].op = "prices" /\ Len(responses[1].keys) = 2
  /\ Cardinality(Cached) = 1
  /\ DOMAIN responses[1].result = Cached
  /\ \A k \in Cached : responses[1].result[k] = price_cache[k]
  /\ note = "failed" /\ pc = "sleep5" /\ lastStatus = "disconnected"

\* a step in which the read loop skips a non-binary frame
SkipsText ==
  /\ Len(dropped') = Len(dropped) + 1
  /\ dropped'[Len(dropped')].kind = "text"

\* C26: the step that reads a non-binary frame is taken by a streaming
\* session and leaves it streaming and waiting for the next frame; price
\* cache, subscription set, connection status and downstream connections
\* are unchanged and nothing is published or delivered.
C26_TextIgnored ==
  [][SkipsText =>
       /\ Streaming /\ Streaming' /\ pc' = "recv"
       /\ UNCHANGED <<price_cache, subscribed_instruments, upstox_connected, ws, lastStatus,
                      active_connections, received, pub, decoded, pushLog>>]_vars

\* a tick was decoded and delivered, a text frame was read after it, and the
\* session still streams with cache and delivery as they were
C26_Witness ==
  /\ dropped = <<[kind |-> "text", at |-> 1]>>
  /\ Streaming /\ pc = "recv" /\ lastStatus = "connected"
  /\ Len(decoded) = 1
  /\ price_cache[decoded[1].instrument_key] = decoded[1].data
  /\ received[1] = <<StatusMsg("connected"), decoded[1]>>

\* the keys written to the current upstream socket by its pushes
Pushed == UNION {pushLog[i].keys : i \in 2..Len(pushLog)}

\* the connect step is over: the feed task reads frames or publishes a tick
PastConnect == pc = "recv" \/ (pc = "send" /\ bc.after = "price")

\* C27: while the session is streaming and past its connect step, every
\* key of the subscription set has been in a push written to the current
\* upstream socket.
C27_SubscribedPushed ==
  (Streaming /\ PastConnect) => subscribed_instruments \subseteq Pushed

\* key 1 was subscribed before the socket was opened and went out with the
\* connect push; key 2 was subscribed during the connect step
C27_Witness ==
  /\ Streaming /\ pc = "recv" /\ subscribed_instruments = {1, 2}
  /\ Len(pushLog) = 3 /\ pushLog[1].keys = {1}
  /\ pushLog[2] = [kind |-> "subscribe", keys |-> {2}]
  /\ pushLog[3] = [kind |-> "connect", keys |-> {1, 2}]

\* C28: wherever a task is suspended, and so wherever another task can run,
\* upstox_connected is true exactly when the session handle ws is set.
C28_FlagIffHandle == upstox_connected <=> (ws # None)

\* a subscribe ran during the second session and saw both set: it wrote its
\* push and waits for it
C28_Witness ==
  /\ cycles = 2 /\ upstox_connected /\ ws # None
  /\ \E c \in Conns : hpc[c] = "ws_send"
  /\ Count(received[1], StatusMsg("disconnected")) = 1

\* s holds x at p and at q with no y in between
Repeats(s, x, y) ==
  \E p, q \in 1..Len(s) :
    /\ p < q /\ s[p] = x /\ s[q] = x
    /\ \A r \in (p + 1)..(q - 1) : s[r] # y

\* C29: a "connected" broadcast never follows a "connected" broadcast
\* directly, and a registered connection that has seen "connected" twice
\* has seen "disconnected" in between.
C29_StatusAlternates ==
  [][/\ (pc = "ws_connect" /\ lastStatus' = "connected") => lastStatus # "connected"
     /\ \A c \in Range(active_connections') :
          ~Repeats(received'[c], StatusMsg("connected"), StatusMsg("disconnected"))]_vars

\* the price messages of s for one instrument never step back in time
Monotone(s) ==
  \A i, j \in 1..Len(s) :
    (/\ i < j /\ IsPrice(s[i]) /\ IsPrice(s[j])
     /\ s[i].instrument_key = s[j].instrument_key)
    => s[i].data.timestamp <= s[j].data.timestamp

\* C30: what a downstream connection has received for an instrument, from
\* the broadcaster and from the cached replies to its subscribe requests
\* together, is in the order of the ticks: no message is older than an
\* earlier one for the same instrument.
C30_NoOlderTick == \A c \in Conns : Monotone(received[c])

\* a connection received the first tick of an instrument from the
\* broadcaster and then, once the second tick was decoded, subscribed and
\* received that second tick as a cached reply before its broadcast
C30_Witness ==
  /\ Len(decoded) = 2 /\ requests = 1
  /\ decoded[1].instrument_key = decoded[2].instrument_key
  /\ pc = "send" /\ bc.msg = decoded[2] /\ bc.cur = 1
  /\ received[1] = <<decoded[1], decoded[2]>>

\* no place_trade request is under way
Quiet == \A i \in Tasks : tasks[i].pc \in {"new", "done", "rejected", "failed"}

\* C31: once the trades of the user have run, concurrently or not, the
\* balance is not negative and no holding has a negative quantity.
C31_NeverNegative ==
  Quiet => /\ db.virtual_balance >= 0
           /\ \A n \in 1..Len(db.portfolio) : db.portfolio[n].quantity >= 0

\* the reasons of the claim, as they show in the state a check is made in:
\* the request of task i, at the point where that check is made
NoPrice(i) == tasks[i].pc = "new"
ContestInactive(i) == tasks[i].pc = "config" /\ ~db.trading_active
OverBalance(i) ==
  /\ tasks[i].pc = "v_user" /\ tasks[i].trade.trade_type = "BUY"
  /\ tasks[i].price * tasks[i].trade.quantity > db.virtual_balance
Invested(instrument_key) ==
  LET n == find_one(db.portfolio, instrument_key) IN
  IF n = 0 THEN [num |-> 0, den |-> 1]
  ELSE [num |-> db.portfolio[n].avg_price.num * db.portfolio[n].quantity,
        den |-> db.portfolio[n].avg_price.den]
OverAllocation(i) ==
  /\ tasks[i].pc = "v_holding" /\ tasks[i].trade.trade_type = "BUY"
  /\ LET held == Invested(tasks[i].trade.instrument_key) IN
     held.num + tasks[i].price * tasks[i].trade.quantity * held.den
       > (STARTING_CAPITAL * held.den) \div 2
NotOwned(i) ==
  /\ tasks[i].pc = "v_holding" /\ tasks[i].trade.trade_type = "SELL"
  /\ \A n \in 1..Len(db.portfolio) :
       db.portfolio[n].instrument_key # tasks[i].trade.instrument_key
OverQuantity(i) ==
  /\ tasks[i].pc = "v_holding" /\ tasks[i].trade.trade_type = "SELL"
  /\ ~NotOwned(i)
  /\ db.portfolio[find_one(db.portfolio, tasks[i].trade.instrument_key)].quantity
       < tasks[i].trade.quantity

\* C32: a step that rejects a request leaves the balance, the trade count,
\* the holdings and the orders as they are, and so does every step of a
\* request up to its rejection (a request is rejected before its first
\* write).  The request is rejected for the reason that holds when the check
\* is made: no cached price, contest inactive or market closed, cost above
\* the balance, investment above half the starting capital, stock not
\* owned, quantity above the holding; and when one of the reasons that show
\* in the database holds, the request is rejected.
C32_RejectedChangesNothing ==
  [][\A i \in Tasks :
       tasks'[i] # tasks[i] =>
         /\ tasks[i].pc \in {"new", "config", "v_user", "v_holding"} => db' = db
         /\ tasks'[i].pc = "rejected" =>
              /\ db' = db
              /\ \/ NoPrice(i) /\ tasks'[i].why = "no_price"
                 \/ ContestInactive(i) /\ tasks'[i].why = "contest_inactive"
                 \/ /\ tasks[i].pc = "config" /\ db.trading_active
                    /\ tasks'[i].why \in {"weekend", "before_open", "after_close"}
                 \/ OverBalance(i) /\ tasks'[i].why = "balance"
                 \/ OverAllocation(i) /\ tasks'[i].why = "allocation"
                 \/ NotOwned(i) /\ tasks'[i].why = "not_owned"
                 \/ OverQuantity(i) /\ tasks'[i].why = "quantity"
         /\ (\/ ContestInactive(i) \/ OverBalance(i) \/ OverAllocation(i)
             \/ NotOwned(i) \/ OverQuantity(i))
            => tasks'[i].pc = "rejected"]_vars

\* after a BUY of 3000 that went through, a BUY of 3000 more of the same
\* stock was rejected for the allocation rule and a SELL of 4000 for the
\* quantity: the database holds the first trade only
C32_Witness ==
  /\ \E i, j \in Tasks : tasks[i].why = "allocation" /\ tasks[j].why = "quantity"
  /\ Quiet
  /\ db.virtual_balance = STARTING_CAPITAL - 3000 * TradePrice
  /\ db.trade_count = 1 /\ Len(db.orders) = 1 /\ Len(db.portfolio) = 1
  /\ db.portfolio[1].quantity = 3000

(* --------------------- specification with fairness -------------------- *)
\* The event loop resumes a task whose await has completed; sleeps end and
\* the awaited network operations return or raise.
LiveSpec == Spec /\ WF_vars(SleepDone) /\ WF_vars(SendDone) /\ WF_vars(WsExit)

\* The same, for downstream connections that may stop reading: a send_json
\* to a connection need not ever return or raise.  Frames keep arriving
\* upstream and the sleeps and the socket close end as before.
StallSpec == Spec /\ WF_vars(SleepDone) /\ WF_vars(RecvBinary) /\ WF_vars(WsExit)

\* C15: the feed task does not stay suspended in the send of a tick to a
\* downstream connection: while the upstream socket is up and a downstream
\* connection stays open, it gets back to reading upstream frames, even when
\* that send never completes.
C15_NotStalledBySend ==
  (pc = "send" /\ IsPrice(bc.msg))
  ~> (pc = "recv" \/ link # "up" \/ \A c \in Conns : hpc[c] # "receive")

====
